---------------------------- MODULE Spec2Model ----------------------------
(***************************************************************************)
(* A model of src/pbb/bounds.py: the PAC-Bayes bound engine (class PBBobj) *)
(* and the binary-KL inversion inv_kl.                                     *)
(*                                                                         *)
(* Two specifications share the module:                                    *)
(*   InvKlSpec   one call of inv_kl(qs, ks), one loop iteration per step,  *)
(*               in binary64 arithmetic                                    *)
(*   Spec        one call of a method of PBBobj                            *)
(***************************************************************************)
EXTENDS Integers, Sequences, FiniteSets, TLC

(***************************************************************************)
(* Natural numbers of any size, as little-endian sequences of limbs below  *)
(* Base, with no leading zero limb (zero is the empty sequence).  Python's *)
(* floats are binary64: significands need 53 bits and the exact sums and   *)
(* products of the model more than a machine word.                         *)
(***************************************************************************)
Base == 2^15

LimbBits == 15

RECURSIVE BNorm(_)
BNorm(a) ==
    IF a = <<>> THEN <<>>
    ELSE IF a[Len(a)] = 0 THEN BNorm(SubSeq(a, 1, Len(a) - 1))
    ELSE a

BFromInt(n) ==
    IF n = 0 THEN <<>>
    ELSE IF n < Base THEN <<n>>
    ELSE IF n < Base * Base THEN <<n % Base, n \div Base>>
    ELSE <<n % Base, (n \div Base) % Base, n \div (Base * Base)>>

RECURSIVE BAddC(_, _, _)
BAddC(a, b, c) ==
    IF a = <<>> /\ b = <<>> THEN (IF c = 0 THEN <<>> ELSE <<c>>)
    ELSE LET x == IF a = <<>> THEN 0 ELSE Head(a)
             y == IF b = <<>> THEN 0 ELSE Head(b)
             s == x + y + c
         IN  <<s % Base>> \o BAddC(IF a = <<>> THEN <<>> ELSE Tail(a),
                                   IF b = <<>> THEN <<>> ELSE Tail(b),
                                   s \div Base)

BAdd(a, b) == BAddC(a, b, 0)

\* a - b for a >= b
RECURSIVE BSubC(_, _, _)
BSubC(a, b, c) ==
    IF a = <<>> THEN <<>>
    ELSE LET y == IF b = <<>> THEN 0 ELSE Head(b)
             d == Head(a) - y - c
         IN  <<IF d < 0 THEN d + Base ELSE d>>
                \o BSubC(Tail(a), IF b = <<>> THEN <<>> ELSE Tail(b),
                         IF d < 0 THEN 1 ELSE 0)

BSub(a, b) == BNorm(BSubC(a, b, 0))

\* -1, 0, 1 as a < b, a = b, a > b
RECURSIVE BCmpAt(_, _, _)
BCmpAt(a, b, i) ==
    IF i = 0 THEN 0
    ELSE IF a[i] < b[i] THEN -1
    ELSE IF a[i] > b[i] THEN 1
    ELSE BCmpAt(a, b, i - 1)

BCmp(a, b) ==
    IF Len(a) < Len(b) THEN -1
    ELSE IF Len(a) > Len(b) THEN 1
    ELSE BCmpAt(a, b, Len(a))

RECURSIVE BMulSmallC(_, _, _)
BMulSmallC(a, k, c) ==
    IF a = <<>> THEN (IF c = 0 THEN <<>> ELSE <<c>>)
    ELSE LET s == Head(a) * k + c
         IN  <<s % Base>> \o BMulSmallC(Tail(a), k, s \div Base)

\* a * k for 0 <= k < Base
BMulSmall(a, k) == IF k = 0 THEN <<>> ELSE BMulSmallC(a, k, 0)

BShiftLimb(a) == IF a = <<>> THEN <<>> ELSE <<0>> \o a

RECURSIVE BMul(_, _)
BMul(a, b) ==
    IF a = <<>> \/ b = <<>> THEN <<>>
    ELSE BAdd(BMulSmall(a, Head(b)), BShiftLimb(BMul(a, Tail(b))))

RECURSIVE BPow(_, _)
BPow(a, n) == IF n = 0 THEN <<1>> ELSE BMul(a, BPow(a, n - 1))

\* floor(a / d) for 0 < d <= Base, limb by limb from the top
RECURSIVE BDivLimbs(_, _, _, _)
BDivLimbs(a, d, i, r) ==
    IF i = Len(a) + 1 THEN <<>>
    ELSE LET j   == Len(a) + 1 - i
             cur == r * Base + a[j]
         IN  BDivLimbs(a, d, i + 1, cur % d) \o <<cur \div d>>

BDivSmall(a, d) == BNorm(BDivLimbs(a, d, 1, 0))

RECURSIVE BZeros(_)
BZeros(n) == IF n = 0 THEN <<>> ELSE <<0>> \o BZeros(n - 1)

\* a * 2^n
BShl(a, n) ==
    IF a = <<>> THEN <<>>
    ELSE BZeros(n \div LimbBits) \o BMulSmall(a, 2^(n % LimbBits))

\* floor(a / 2^n)
BShr(a, n) ==
    LET w == n \div LimbBits
    IN  IF w >= Len(a) THEN <<>>
        ELSE BDivSmall(SubSeq(a, w + 1, Len(a)), 2^(n % LimbBits))

SmallBitLen(x) == CHOOSE k \in 0..LimbBits : x < 2^k /\ (k = 0 \/ x >= 2^(k-1))

BBitLen(a) ==
    IF a = <<>> THEN 0
    ELSE LimbBits * (Len(a) - 1) + SmallBitLen(a[Len(a)])

BIsOdd(a) == a # <<>> /\ a[1] % 2 = 1


(***************************************************************************)
(* Python floats (IEEE-754 binary64), non-negative values only: the value  *)
(* of [m, e] is m * 2^e.  A normal number has a 53-bit m; below 2^-1022 m  *)
(* is shorter and e = EMin (gradual underflow); zero is [<<>>, 0].         *)
(* Arithmetic rounds the exact result to nearest, ties to even.            *)
(***************************************************************************)
Precision == 53

EMin == -1074

Zero == [m |-> <<>>, e |-> 0]

One == [m |-> BShl(<<1>>, Precision - 1), e |-> 1 - Precision]

Max(x, y) == IF x >= y THEN x ELSE y

Min(x, y) == IF x <= y THEN x ELSE y

\* the float nearest to n * 2^e
FRound(n, e) ==
    IF n = <<>> THEN Zero
    ELSE LET s == Max(BBitLen(n) - Precision, EMin - e)
         IN  IF s <= 0 THEN [m |-> BShl(n, -s), e |-> e + s]
             ELSE LET q    == BShr(n, s)
                      r    == BSub(n, BShl(q, s))
                      c    == BCmp(r, BShl(<<1>>, s - 1))
                      up   == c = 1 \/ (c = 0 /\ BIsOdd(q))
                      q2   == IF up THEN BAdd(q, <<1>>) ELSE q
                  IN  IF q2 = <<>> THEN Zero
                      ELSE IF BBitLen(q2) > Precision
                           THEN [m |-> BShr(q2, 1), e |-> e + s + 1]
                           ELSE [m |-> q2, e |-> e + s]

\* -1, 0, 1 as a * 2^ea is below, equal to, above b * 2^eb
CmpScaled(a, ea, b, eb) ==
    IF a = <<>> \/ b = <<>> THEN BCmp(a, b)
    ELSE IF ea >= eb THEN BCmp(BShl(a, ea - eb), b)
    ELSE BCmp(a, BShl(b, eb - ea))

FCmp(x, y) == CmpScaled(x.m, x.e, y.m, y.e)

\* x + y
FAdd(x, y) ==
    IF x.m = <<>> THEN y
    ELSE IF y.m = <<>> THEN x
    ELSE LET e0 == Min(x.e, y.e)
         IN  FRound(BAdd(BShl(x.m, x.e - e0), BShl(y.m, y.e - e0)), e0)

\* x - y for x >= y
FSub(x, y) ==
    IF y.m = <<>> THEN x
    ELSE LET e0 == Min(x.e, y.e)
         IN  FRound(BSub(BShl(x.m, x.e - e0), BShl(y.m, y.e - e0)), e0)

\* x * .5
FHalf(x) == FRound(x.m, x.e - 1)

\* the float nearest to a / b, for small naturals a and b > 0
FromRatio(a, b) ==
    LET n   == BShl(BFromInt(a), 8 * LimbBits)
        q   == BDivSmall(n, b)
        rem == BSub(n, BMulSmall(q, b))
    IN  FRound(BAdd(BShl(q, 1), IF rem = <<>> THEN <<>> ELSE <<1>>),
               -(8 * LimbBits) - 1)

\* x / y >= t as Python evaluates it, for x, y > 0 and t not a power of two:
\* the rounded quotient reaches t exactly when the exact quotient lies above
\* the midpoint of t and its predecessor (or on it, when t's m is even).
FDivGE(x, y, t) ==
    LET mid == BSub(BShl(t.m, 1), <<1>>)
        c   == CmpScaled(x.m, x.e, BMul(y.m, mid), y.e + t.e - 1)
    IN  c = 1 \/ (c = 0 /\ ~BIsOdd(t.m))

\* the literals 1e-10 (line 222) and 1e-5 (line 223) as binary64
Lit1em10 == [m |-> <<15803, 13231, 29567, 219>>, e |-> -86]

Lit1em5 == [m |-> <<26865, 4550, 25302, 167>>, e |-> -69]

(***************************************************************************)
(* inv_kl(qs, ks), lines 206-236.                                          *)
(*                                                                         *)
(* The empirical risk is the float nearest to qnum / qden; the confidence  *)
(* term is ks * ln 2 for a natural ks, so that the sign of ikl is decided  *)
(* without evaluating a logarithm: multiplying                             *)
(*     ks*ln 2 - (qs*log(qs/p) + (1-qs)*log((1-qs)/(1-p))) < 0             *)
(* by qden and exponentiating gives                                        *)
(*     qs^qnum * (1-qs)^(qden-qnum) > 2^(ks*qden) * p^qnum * (1-p)^(qden-qnum) *)
(* which is compared exactly, on the floats 1-qs and 1-p the code forms.   *)
(***************************************************************************)
VARIABLES
    qnum, qden,   \* the empirical risk qs as a ratio
    qs,           \* argument qs, a float
    ks,           \* argument ks, in units of ln 2
    izq, dch,     \* the bisection interval
    qd,           \* the candidate returned
    iters,        \* iterations of the loop so far
    ik_pc         \* "loop" | "returned" | "ZeroDivisionError" | "off"

ikvars == <<qnum, qden, qs, ks, izq, dch, qd, iters, ik_pc>>

VARIABLES
    objective,       \* self.objective, the string's value
    obj_is_literal,  \* whether self.objective is the very object 'fpoint'
    mc_samples,      \* self.mc_samples
    net_stochastic,  \* whether two forward passes with sample=True may differ
    pc,              \* "idle" | "ers_loop" | "mc_loop" | "stats_cont" | "done"
    call,            \* the method called and its arguments
    est,             \* the estimator running: its name and arguments
    batch_id,        \* the loop variable of enumerate(data_loader); -1 unbound
    consumed,        \* batches drawn from data_loader so far
    i,               \* Monte-Carlo samples drawn for the current batch
    loss_ce, loss_01,                \* empirical_risk_sample's totals
    cross_entropy, error,            \* mcsampling's totals
    cross_entropy_mc, error_mc,      \* mcsampling's per-batch totals
    calls,           \* the forward passes made, in order
    est_ret,         \* what the estimator returned or raised
    ret              \* what the method returned or raised

evars == <<objective, obj_is_literal, mc_samples, net_stochastic, pc, call,
           est, batch_id, consumed, i, loss_ce, loss_01, cross_entropy,
           error, cross_entropy_mc, error_mc, calls, est_ret, ret>>

vars == <<ikvars, evars>>

NoCall == [name |-> "none"]

NoRet == [kind |-> "none"]

Rat(n, d) == [num |-> n, den |-> d]

\* the locals of the estimators before any of them runs
EstIdle ==
    /\ est = NoCall /\ batch_id = -1 /\ consumed = 0 /\ i = 0
    /\ loss_ce = 0 /\ loss_01 = 0
    /\ cross_entropy = Rat(0, 1) /\ error = Rat(0, 1)
    /\ cross_entropy_mc = 0 /\ error_mc = 0
    /\ calls = <<>> /\ est_ret = NoRet

\* no method of PBBobj is running (the inv_kl specifications)
EngineOff ==
    /\ objective = "fquad" /\ obj_is_literal = FALSE /\ mc_samples = 1
    /\ net_stochastic = FALSE /\ pc = "off" /\ call = NoCall
    /\ EstIdle /\ ret = NoRet

\* grid of empirical risks j / QDen, j = 0..QDen
QDen == 3

\* one more empirical risk just below the upper end: 1 - 2^-NearOneBits
NearOneBits == 17

\* confidence terms 0, ln 2, .., MaxK * ln 2 and BigK * ln 2
MaxK == 2

BigK == 34

QInputs ==
    {[num |-> j, den |-> QDen, val |-> FromRatio(j, QDen)] : j \in 0..QDen}
    \cup {[num |-> 2^NearOneBits - 1, den |-> 2^NearOneBits,
           val |-> FSub(One, FRound(<<1>>, -NearOneBits))]}

KInputs == 0..MaxK \cup {BigK}

\* m * 2^e-factors of both sides of the exponentiated inequality
KlExceeds(x, nx, y, ny, z, nz, w, nw, k) ==
    \* x^nx * y^ny > 2^k * z^nz * w^nw, for floats x, y, z, w
    CmpScaled(BMul(BPow(x.m, nx), BPow(y.m, ny)), nx * x.e + ny * y.e,
              BMul(BPow(z.m, nz), BPow(w.m, nw)), k + nz * z.e + nw * w.e) = 1

\* x - y for x >= y, not rounded
FSubExact(x, y) ==
    IF y.m = <<>> THEN x
    ELSE LET e0 == Min(x.e, y.e)
         IN  [m |-> BSub(BShl(x.m, x.e - e0), BShl(y.m, y.e - e0)), e |-> e0]

\* ikl < 0 were 1-qs and 1-p exact, as over the reals
IklNegativeExact(q, a, b, k, p) ==
    IF q = Zero
    THEN KlExceeds(One, 0, FSubExact(One, q), 1, One, 0, FSubExact(One, p), 1, k)
    ELSE IF q = One
    THEN KlExceeds(q, 1, One, 0, p, 1, One, 0, k)
    ELSE KlExceeds(q, a, FSubExact(One, q), b - a, p, a, FSubExact(One, p), b - a, k * b)

\* lines 225-231: ikl < 0
IklNegative(q, a, b, k, p) ==
    IF q = Zero
    THEN \* ikl = ks-(0+(1-qs)*math.log((1-qs)/(1-p)))
         KlExceeds(One, 0, FSub(One, q), 1, One, 0, FSub(One, p), 1, k)
    ELSE IF q = One
    THEN \* ikl = ks-(qs*math.log(qs/p)+0)
         KlExceeds(q, 1, One, 0, p, 1, One, 0, k)
    ELSE \* ikl = ks-(qs*math.log(qs/p)+(1-qs) * math.log((1-qs)/(1-p)))
         KlExceeds(q, a, FSub(One, q), b - a, p, a, FSub(One, p), b - a, k * b)

\* line 223: (dch-izq)/dch >= 1e-5
LoopTest(l, h) ==
    IF h = Zero THEN "ZeroDivisionError"
    ELSE IF FCmp(h, l) <= 0 THEN "false"
    ELSE IF FDivGE(FSub(h, l), h, Lit1em5) THEN "true"
    ELSE "false"

\* line 224: p = (izq+dch)*.5
Midpoint(l, h) == FHalf(FAdd(l, h))

\* line 222: 1-1e-10
UpperEnd == FSub(One, Lit1em10)

\* lines 219-222
InvKlInit ==
    /\ \E r \in QInputs : /\ qnum = r.num
                          /\ qden = r.den
                          /\ qs = r.val
                          /\ izq = r.val
    /\ ks \in KInputs
    /\ qd = Zero
    /\ iters = 0
    /\ dch = UpperEnd
    /\ ik_pc = "loop"
    /\ EngineOff

\* lines 223-235: one iteration of the while loop
InvKlIterate ==
    /\ ik_pc = "loop"
    /\ LoopTest(izq, dch) = "true"
    /\ LET p == Midpoint(izq, dch)
       IN  /\ IF IklNegative(qs, qnum, qden, ks, p)
              THEN dch' = p /\ izq' = izq
              ELSE izq' = p /\ dch' = dch
           /\ qd' = p
    /\ iters' = iters + 1
    /\ UNCHANGED <<qnum, qden, qs, ks, ik_pc>>
    /\ UNCHANGED evars

\* lines 223, 236: the loop test fails (or cannot be evaluated) and the
\* function returns qd (or raises)
InvKlExit ==
    /\ ik_pc = "loop"
    /\ LoopTest(izq, dch) # "true"
    /\ ik_pc' = IF LoopTest(izq, dch) = "false" THEN "returned"
                ELSE LoopTest(izq, dch)
    /\ UNCHANGED <<qnum, qden, qs, ks, izq, dch, qd, iters>>
    /\ UNCHANGED evars

InvKlNext == InvKlIterate \/ InvKlExit

InvKlSpec == InvKlInit /\ [][InvKlNext]_vars

(***************************************************************************)
(* class PBBobj, lines 9-203.  One method call per behaviour: the object   *)
(* keeps nothing between calls but its configuration.                      *)
(*                                                                         *)
(* Losses are counted in whole units: a cross-entropy in units of the      *)
(* scale compute_empirical_risk gives it, a 0-1 error in wrong predictions *)
(* per batch.  Averages are ratios [num, den], never rounded.              *)
(***************************************************************************)
\* the data loader yields 0..MaxBatches batches
MaxBatches == 2

\* self.mc_samples ranges over 1..MaxMC
MaxMC == 2

\* 'fbbb' is the name the class docstring gives (line 16); 'kl' is no name
Objectives == {"fquad", "flamb", "fclassic", "fpoint", "bbb", "fbbb", "kl"}

Return(v) == [kind |-> "return", value |-> v]

Raise(e) == [kind |-> "raise", err |-> e]

RatAdd(x, y) ==
    IF x.den = y.den THEN Rat(x.num + y.num, x.den)
    ELSE Rat(x.num * y.den + y.num * x.den, x.den * y.den)

RatEq(x, y) == x.num * y.den = y.num * x.den

\* x / k as Python evaluates it for a float x
RatDiv(x, k) == IF k = 0 THEN Raise("ZeroDivisionError") ELSE Return(Rat(x.num, x.den * k))

\* lines 121-122 and 147-148: both totals over batch_id.  The cross-entropy
\* total is a tensor (dividing it by zero raises nothing), the 0-1 total a
\* float, whose division raises.
Averages(ce, e01, bid) ==
    IF bid = -1 THEN Raise("UnboundLocalError")
    ELSE LET b == RatDiv(e01, bid)
         IN  IF b.kind = "raise" THEN b
             ELSE Return([ce |-> RatDiv(ce, bid).value, e01 |-> b.value])

\* the network's forward pass (external): what net(data, sample=, clamping=,
\* pmin=) leads to, as the batch's negative log-likelihood and its number of
\* wrong predictions.  w is the draw of the weights, 0 unless the network
\* samples.
NetOut(d, sample, clamping, w) ==
    [nll   |-> 8 * d + (IF clamping THEN 0 ELSE 4) + (IF sample THEN 2 ELSE 0) + w,
     wrong |-> (d % 2) + (IF sample THEN w ELSE 0)]

\* the draws a forward pass can see
Draws(sample) == IF net_stochastic /\ sample THEN 0..1 ELSE {0}

\* lines 57-62: the loss and the scale it is measured in
ComputeEmpiricalRisk(nll, bounded) ==
    [v |-> nll, scale |-> IF bounded THEN "1/log(1/pmin)" ELSE "1"]

\* lines 64-76: compute_losses(net, data, target, clamping, sample)
ComputeLosses(d, clamping, sample, w) ==
    LET out == NetOut(d, sample, clamping, w)
    IN  [fwd     |-> [data |-> d, sample |-> sample, clamping |-> clamping,
                      pmin |-> "self.pmin"],
         loss_ce |-> ComputeEmpiricalRisk(out.nll, clamping).v,
         loss_01 |-> out.wrong]

\* bound with the classic formula as the default branch
BoundDefaultClassic(obj, empirical_risk, lambda_var) ==
    IF obj = "fquad"
    THEN Return([formula |-> "(sqrt(risk+B)+sqrt(B))^2", risk |-> empirical_risk])
    ELSE IF obj = "flamb"
    THEN IF lambda_var = "None"
         THEN Raise("AttributeError")
         ELSE Return([formula |-> "risk/(1-lamb/2)+K", risk |-> empirical_risk])
    ELSE IF obj = "bbb"
    THEN Return([formula |-> "risk+kl_penalty*kl/n", risk |-> empirical_risk])
    ELSE Return([formula |-> "risk+sqrt(B)", risk |-> empirical_risk])

\* bound reading lambda_var only where it is given (lamb = 1 otherwise)
BoundLambdaOptional(obj, empirical_risk, lambda_var) ==
    IF obj = "fquad"
    THEN Return([formula |-> "(sqrt(risk+B)+sqrt(B))^2", risk |-> empirical_risk])
    ELSE IF obj = "flamb"
    THEN Return([formula |-> "risk/(1-lamb/2)+K", risk |-> empirical_risk])
    ELSE IF obj = "fclassic" \/ obj = "fpoint"
    THEN Return([formula |-> "risk+sqrt(B)", risk |-> empirical_risk])
    ELSE IF obj = "bbb"
    THEN Return([formula |-> "risk+kl_penalty*kl/n", risk |-> empirical_risk])
    ELSE Raise("RuntimeError")

\* lines 78-106: bound(empirical_risk, kl, lambda_var)
Bound(obj, empirical_risk, lambda_var) ==
    IF obj = "fquad"
    THEN Return([formula |-> "(sqrt(risk+B)+sqrt(B))^2", risk |-> empirical_risk])
    ELSE IF obj = "flamb"
    THEN IF lambda_var = "None"
         THEN Raise("AttributeError")   \* line 90: None.lamb_scaled
         ELSE Return([formula |-> "risk/(1-lamb/2)+K", risk |-> empirical_risk])
    ELSE IF obj = "fclassic" \/ obj = "fpoint"
    THEN Return([formula |-> "risk+sqrt(B)", risk |-> empirical_risk])
    ELSE IF obj = "bbb"
    THEN Return([formula |-> "risk+kl_penalty*kl/n", risk |-> empirical_risk])
    ELSE Raise("RuntimeError")          \* line 105

\* line 178: self.objective is 'fpoint'
ObjectiveIsFpoint == objective = "fpoint" /\ obj_is_literal

InvKlOff ==
    /\ qnum = 0 /\ qden = 1 /\ qs = Zero /\ ks = 0
    /\ izq = Zero /\ dch = Zero /\ qd = Zero /\ iters = 0 /\ ik_pc = "off"

\* lines 44-55
Init ==
    /\ objective \in Objectives
    /\ obj_is_literal \in (IF objective = "fpoint" THEN BOOLEAN ELSE {FALSE})
    /\ mc_samples \in 1..MaxMC
    /\ net_stochastic \in BOOLEAN
    /\ pc = "idle"
    /\ call = NoCall
    /\ EstIdle
    /\ ret = NoRet
    /\ InvKlOff

config == <<objective, obj_is_literal, mc_samples, net_stochastic>>

\* line 124: the forward pass when batches is false; the sample argument is
\* not passed on
ErsSingleLosses(clamping, sample, w) == ComputeLosses(1, clamping, TRUE, w)

\* lines 116-117: the forward pass of one batch
ErsBatchLosses(d, clamping, sample, w) == ComputeLosses(d, clamping, sample, w)

\* mcsampling passing sample=False
McLossesNoSample(d, clamping, w) == ComputeLosses(d, clamping, FALSE, w)

\* lines 139-140, 153-154: sample is left to its default, True
McLosses(d, clamping, w) == ComputeLosses(d, clamping, TRUE, w)

\* an estimator is entered: its locals (lines 111, 130-131)
EstStart(name, batches, clamping, sample, n) ==
    /\ est' = [name |-> name, batches |-> batches, clamping |-> clamping,
               sample |-> sample, n |-> n]
    /\ batch_id' = -1 /\ consumed' = 0 /\ i' = 0
    /\ loss_ce' = 0 /\ loss_01' = 0
    /\ cross_entropy' = Rat(0, 1) /\ error' = Rat(0, 1)
    /\ cross_entropy_mc' = 0 /\ error_mc' = 0
    /\ calls' = <<>> /\ est_ret' = NoRet
    /\ pc' = IF name = "mcsampling" THEN "mc_loop"
             ELSE IF batches THEN "ers_loop" ELSE "ers_single"

\* an estimator returns or raises: to its caller
EstEnd(outcome) ==
    /\ est_ret' = outcome
    /\ IF call.name = "compute_final_stats_risk"
       THEN pc' = "stats_cont" /\ ret' = ret
       ELSE pc' = "done" /\ ret' = outcome

\* bound(empirical_risk, kl, lambda_var) is called
BoundCall ==
    /\ pc = "idle"
    /\ \E lambda_var \in {"None", "lambda_var"} :
         /\ call' = [name |-> "bound", lambda_var |-> lambda_var]
         /\ ret' = Bound(objective, "empirical_risk", lambda_var)
    /\ pc' = "done"
    /\ UNCHANGED <<config, est, batch_id, consumed, i, loss_ce, loss_01,
                   cross_entropy, error, cross_entropy_mc, error_mc, calls,
                   est_ret>>
    /\ UNCHANGED ikvars

\* empirical_risk_sample(net, input, target, batches, clamping, data_loader,
\* sample) is called; n is the number of batches data_loader yields
ErsCall ==
    /\ pc = "idle"
    /\ \E batches \in BOOLEAN, clamping \in BOOLEAN, sample \in BOOLEAN,
          n \in 0..MaxBatches :
         /\ batches \/ n = 1
         /\ call' = [name |-> "empirical_risk_sample"]
         /\ EstStart("empirical_risk_sample", batches, clamping, sample, n)
    /\ UNCHANGED <<config, ret>>
    /\ UNCHANGED ikvars

\* lines 113-119: one batch
ErsBatch ==
    /\ pc = "ers_loop"
    /\ consumed < est.n
    /\ \E w \in Draws(est.sample) :
         LET l == ErsBatchLosses(consumed + 1, est.clamping, est.sample, w)
         IN  /\ calls' = Append(calls, l.fwd)
             /\ loss_ce' = loss_ce + l.loss_ce
             /\ loss_01' = loss_01 + l.loss_01
    /\ batch_id' = consumed
    /\ consumed' = consumed + 1
    /\ UNCHANGED <<config, pc, call, est, i, cross_entropy, error,
                   cross_entropy_mc, error_mc, est_ret, ret>>
    /\ UNCHANGED ikvars

\* lines 121-122, 125: the averages over the batches
ErsDivide ==
    /\ pc = "ers_loop"
    /\ consumed = est.n
    /\ EstEnd(Averages(Rat(loss_ce, 1), Rat(loss_01, 1), batch_id))
    /\ UNCHANGED <<config, call, est, batch_id, consumed, i, loss_ce, loss_01,
                   cross_entropy, error, cross_entropy_mc, error_mc, calls>>
    /\ UNCHANGED ikvars

\* lines 124-125: batches is false
ErsSingle ==
    /\ pc = "ers_single"
    /\ \E w \in Draws(TRUE) :
         LET l == ErsSingleLosses(est.clamping, est.sample, w)
         IN  /\ calls' = Append(calls, l.fwd)
             /\ loss_ce' = l.loss_ce
             /\ loss_01' = l.loss_01
             /\ EstEnd(Return([ce  |-> Rat(l.loss_ce, 1),
                               e01 |-> Rat(l.loss_01, 1)]))
    /\ UNCHANGED <<config, call, est, batch_id, consumed, i, cross_entropy,
                   error, cross_entropy_mc, error_mc>>
    /\ UNCHANGED ikvars

\* mcsampling(net, input, target, batches, clamping, data_loader) is called
McCall ==
    /\ pc = "idle"
    /\ \E batches \in BOOLEAN, clamping \in BOOLEAN, n \in 0..MaxBatches :
         /\ batches \/ n = 1
         /\ call' = [name |-> "mcsampling"]
         /\ EstStart("mcsampling", batches, clamping, TRUE, n)
    /\ UNCHANGED <<config, ret>>
    /\ UNCHANGED ikvars

\* lines 138-145 (152-159 when batches is false): one Monte-Carlo sample of
\* the current batch and, after the last one, the batch's mean
McSample ==
    /\ pc = "mc_loop"
    /\ consumed < est.n
    /\ \E w \in Draws(TRUE) :
         LET l    == McLosses(consumed + 1, est.clamping, w)
             ce   == cross_entropy_mc + l.loss_ce
             e01  == error_mc + l.loss_01
         IN  /\ calls' = Append(calls, l.fwd)
             /\ IF i + 1 < mc_samples
                THEN /\ i' = i + 1
                     /\ cross_entropy_mc' = ce
                     /\ error_mc' = e01
                     /\ UNCHANGED <<cross_entropy, error, consumed>>
                ELSE /\ i' = 0
                     /\ cross_entropy_mc' = 0
                     /\ error_mc' = 0
                     /\ cross_entropy' = RatAdd(cross_entropy, Rat(ce, mc_samples))
                     /\ error' = RatAdd(error, Rat(e01, mc_samples))
                     /\ consumed' = consumed + 1
    /\ batch_id' = IF est.batches THEN consumed ELSE batch_id
    /\ UNCHANGED <<config, pc, call, est, loss_ce, loss_01, est_ret, ret>>
    /\ UNCHANGED ikvars

\* lines 147-148, 160
McReturn ==
    /\ pc = "mc_loop"
    /\ consumed = est.n
    /\ EstEnd(IF est.batches THEN Averages(cross_entropy, error, batch_id)
              ELSE Return([ce |-> cross_entropy, e01 |-> error]))
    /\ UNCHANGED <<config, call, est, batch_id, consumed, i, loss_ce, loss_01,
                   cross_entropy, error, cross_entropy_mc, error_mc, calls>>
    /\ UNCHANGED ikvars

\* an application of inv_kl, not evaluated here
InvKlOf(x, term) == [of |-> x, inv_kl |-> term]

\* lines 174-191: compute_final_stats_risk(net, input, target, data_loader,
\* clamping, lambda_var) is called, up to the call of its estimator.  n = 0
\* stands for data_loader=None.
StatsCall ==
    /\ pc = "idle"
    /\ \E n \in 0..MaxBatches, lambda_var \in {"None", "lambda_var"} :
         /\ call' = [name |-> "compute_final_stats_risk",
                     lambda_var |-> lambda_var]
         /\ EstStart(IF ObjectiveIsFpoint THEN "empirical_risk_sample"
                     ELSE "mcsampling",
                     n # 0, TRUE, TRUE, IF n = 0 THEN 1 ELSE n)
    /\ UNCHANGED <<config, ret>>
    /\ UNCHANGED ikvars

\* lines 192-203, once the estimator is back
StatsFinish ==
    /\ pc = "stats_cont"
    /\ pc' = "done"
    /\ ret' =
         IF est_ret.kind = "raise" THEN est_ret
         ELSE LET mc  == est.name = "mcsampling"
                  t   == "log(2/delta_test)/mc_samples"
                  ce  == IF mc THEN InvKlOf(est_ret.value.ce, t)
                         ELSE InvKlOf(est_ret.value.ce, "none")
                  e01 == IF mc THEN InvKlOf(est_ret.value.e01, t)
                         ELSE InvKlOf(est_ret.value.e01, "none")
                  b   == Bound(objective, ce, call.lambda_var)
                  c   == "(kl+log(2*sqrt(train_size)/delta_test))/train_size"
              IN  IF b.kind = "raise" THEN b
                  ELSE Return([train_obj         |-> b.value,
                               estimator         |-> est.name,
                               empirical_risk_ce |-> ce,
                               empirical_risk_01 |-> e01,
                               risk_ce           |-> InvKlOf(ce, c),
                               risk_01           |-> InvKlOf(e01, c)])
    /\ UNCHANGED <<config, call, est, batch_id, consumed, i, loss_ce, loss_01,
                   cross_entropy, error, cross_entropy_mc, error_mc, calls,
                   est_ret>>
    /\ UNCHANGED ikvars

Next ==
    \/ BoundCall
    \/ ErsCall \/ ErsBatch \/ ErsDivide \/ ErsSingle
    \/ McCall \/ McSample \/ McReturn
    \/ StatsCall \/ StatsFinish

Spec == Init /\ [][Next]_vars

(***************************************************************************)
(* Properties                                                              *)
(***************************************************************************)

\* C1: for every q in [0,1] and c >= 0 the value inv_kl(q, c) returns is at
\* least q.
C1_InvKlAtLeastQ == ik_pc = "returned" => FCmp(qd, qs) >= 0

\* the loop of inv_kl is done within this many iterations
MaxIters == 75

\* C2: for every q in [0,1] and c >= 0 the bisection loop of inv_kl exits
\* after finitely many iterations (at most MaxIters) and inv_kl does not
\* raise: the stopping test is never evaluated with dch = 0.
C2_InvKlTerminates ==
    /\ ik_pc # "ZeroDivisionError"
    /\ ik_pc = "loop" => dch # Zero
    /\ iters <= MaxIters

\* inv_kl(0, 0) has gone through its loop and returned
C2_Witness ==
    qs = Zero /\ ks = 0 /\ ik_pc = "returned" /\ qd # Zero /\ iters > 0

\* C7: with a zero confidence term inv_kl returns about its input: at least
\* q, and above q by less than the relative gap 1e-5 of the final upper
\* bound, or by at most the floor 1e-10 when q is within 1e-10 of 1.
C7_ZeroBudgetNearQ ==
    (ik_pc = "returned" /\ ks = 0) =>
        /\ FCmp(qd, qs) >= 0
        /\ \/ ~FDivGE(FSub(qd, qs), dch, Lit1em5)
           \/ /\ FCmp(qs, UpperEnd) >= 0
              /\ FCmp(FSub(qd, qs), Lit1em10) <= 0

\* the states of the loop and of the return for q < 1 - 1e-10
BisectionStates ==
    FCmp(qs, UpperEnd) < 0 =>
        /\ FCmp(qs, izq) <= 0
        /\ FCmp(izq, dch) <= 0
        /\ FCmp(dch, UpperEnd) <= 0
        /\ ik_pc = "returned" =>
              /\ qd = izq \/ qd = dch
              /\ FCmp(qs, qd) <= 0
              /\ FCmp(qd, UpperEnd) <= 0

\* one iteration of the loop for q < 1 - 1e-10
BisectionStep ==
    (InvKlIterate /\ FCmp(qs, UpperEnd) < 0) =>
        /\ FCmp(izq, izq') <= 0
        /\ FCmp(dch', dch) <= 0
        /\ qd' = Midpoint(izq, dch)
        /\ \/ izq' = qd' /\ dch' = dch
           \/ dch' = qd' /\ izq' = izq

\* C10: for q < 1 - 1e-10 every state of the loop has
\* q <= izq <= dch <= 1 - 1e-10; an iteration never lowers izq, never raises
\* dch and moves exactly one of them to the midpoint p, which becomes qd; the
\* value returned is the last midpoint and lies in [q, 1 - 1e-10].
C10_BisectionInvariant == [][BisectionStep]_vars /\ []BisectionStates

\* C3: with batches=True on N >= 1 batches, empirical_risk_sample and
\* mcsampling return the two accumulated totals divided by N.
C3_BatchAverageOverN ==
    (/\ pc = "done"
     /\ call.name \in {"empirical_risk_sample", "mcsampling"}
     /\ est.batches
     /\ est.n >= 1) =>
        LET ce  == IF est.name = "mcsampling" THEN cross_entropy
                   ELSE Rat(loss_ce, 1)
            e01 == IF est.name = "mcsampling" THEN error ELSE Rat(loss_01, 1)
        IN  /\ ret.kind = "return"
            /\ RatEq(ret.value.ce, Rat(ce.num, ce.den * est.n))
            /\ RatEq(ret.value.e01, Rat(e01.num, e01.den * est.n))

\* C4: compute_final_stats_risk picks its estimator by the value of the
\* objective: 'fpoint' takes empirical_risk_sample and no inv_kl correction
\* of the two risks; any other objective takes mcsampling and corrects both
\* risks by inv_kl with ln(2/delta_test)/mc_samples, before the bound and
\* the two certificates.
C4_DispatchByValue ==
    (pc = "done" /\ call.name = "compute_final_stats_risk"
        /\ ret.kind = "return") =>
        LET v == ret.value
            t == IF objective = "fpoint" THEN "none"
                 ELSE "log(2/delta_test)/mc_samples"
        IN  /\ v.estimator = (IF objective = "fpoint"
                              THEN "empirical_risk_sample" ELSE "mcsampling")
            /\ v.empirical_risk_ce = InvKlOf(est_ret.value.ce, t)
            /\ v.empirical_risk_01 = InvKlOf(est_ret.value.e01, t)
            /\ v.train_obj.risk = v.empirical_risk_ce
            /\ v.risk_ce.of = v.empirical_risk_ce
            /\ v.risk_01.of = v.empirical_risk_01

Recognised == {"fquad", "flamb", "fclassic", "fpoint", "bbb"}

C6_MissingLambdaFails ==
    (pc = "done" /\ call.name = "bound") =>
        /\ (objective = "flamb" /\ call.lambda_var = "None") =>
              /\ ret.kind = "raise"
              /\ ret.err # Bound("kl", "empirical_risk", "None").err
        /\ (ret.kind = "raise" /\ ret.err = "AttributeError") =>
              (objective = "flamb" /\ call.lambda_var = "None")

\* bound was called with objective 'flamb' and no lambda_var, and has raised
C6_Witness ==
    /\ pc = "done" /\ call.name = "bound" /\ objective = "flamb"
    /\ call.lambda_var = "None" /\ ret.kind = "raise"

\* C8: for a network that answers equal calls equally and mc_samples = 1,
\* mcsampling(batches=False) returns what empirical_risk_sample(
\* batches=False) returns on the same input (sample at its default, the
\* same clamping), and both make the same single forward pass.
C8_McOneMatchesErs ==
    (/\ pc = "done" /\ call.name = "mcsampling" /\ ~est.batches
     /\ mc_samples = 1 /\ ~net_stochastic) =>
        LET l == ErsSingleLosses(est.clamping, TRUE, 0)
        IN  /\ ret.kind = "return"
            /\ RatEq(ret.value.ce, Rat(l.loss_ce, 1))
            /\ RatEq(ret.value.e01, Rat(l.loss_01, 1))
            /\ calls = <<l.fwd>>

\* mcsampling(batches=False) has returned, mc_samples = 1, the network
\* deterministic
C8_Witness ==
    /\ pc = "done" /\ call.name = "mcsampling" /\ ~est.batches
    /\ mc_samples = 1 /\ ~net_stochastic /\ ret.kind = "return"
    /\ Len(calls) = 1

\* C9: every forward pass empirical_risk_sample makes gets the caller's
\* sample and clamping arguments and the configured pmin, in both branches.
C9_ErsForwardsFlags ==
    call.name = "empirical_risk_sample" =>
        \A k \in 1..Len(calls) :
            /\ calls[k].sample = est.sample
            /\ calls[k].clamping = est.clamping
            /\ calls[k].pmin = "self.pmin"

=============================================================================
